---- MODULE Spec2Model ----
(***************************************************************************)
(* Voice-activity detection and turn taking of the AURA voice backend.     *)
(*                                                                         *)
(*   EnhancedVoiceActivityDetector   services/enhanced_voice_activity_     *)
(*                                   detector.py                           *)
(*   VoiceActivityDetector           services/voice_activity_detector.py   *)
(*   ContinuousConversationManager   services/continuous_conversation.py   *)
(*                                                                         *)
(* An audio frame is a record [len, cls, id, rms]: its byte length, what   *)
(* the per-frame classifier (webrtcvad or its mock) answers on it          *)
(* ("speech", "silence", or "raise" when the classifier throws), a tag     *)
(* that tells the frames of one stream apart, and the RMS of its samples.  *)
(* Byte strings built by b''.join(frames) are sequences of frames.         *)
(***************************************************************************)
EXTENDS Integers, Sequences, FiniteSets, TLC

VARIABLES evad, drv, vres, vlog,
          active_sessions, vad, session, task, resp, ws, intr, env, solo,
          sh, hist, duo, bas

vadVars == <<evad, drv, vres, vlog>>
sessVars == <<active_sessions, vad, session, task, resp, ws, intr, env, solo>>
compVars == <<sh, hist, duo, bas>>
vars == <<evad, drv, vres, vlog,
          active_sessions, vad, session, task, resp, ws, intr, env, solo,
          sh, hist, duo, bas>>

\* Optional[bytes]: None, or the frames joined into one byte string
None == [none |-> TRUE, frames |-> << >>]
Bytes(frames) == [none |-> FALSE, frames |-> frames]

(***************************************************************************)
(* Bounds of the frame driver                                              *)
(***************************************************************************)
MaxN == 1
SpanM == 1
ExtraK == 16
MaxReps == 2
MaxBad == 1
MaxGap == 1

(***************************************************************************)
(* Bounds of the conversation manager's environment                        *)
(***************************************************************************)
MaxSessions == 2
MaxInbound == 3
MaxFaults == 1
MaxTokens == 2
MaxTicks == 1
MaxDrops == 1
MaxSegTokens == 3
RunOnLen == 101
MaxTurns == 11
MaxUtterance == 5
MaxSaveFaults == 1
MaxDuoTokens == 2
MaxChunks == 4

(***************************************************************************)
(* EnhancedVoiceActivityDetector.__init__                                  *)
(***************************************************************************)
sample_rate == 16000
frame_duration == 30
frame_length == (sample_rate * frame_duration) \div 1000
frame_bytes == frame_length * 2
ring_maxlen == 50
min_speech_frames == 8
max_silence_frames == 20

EVAD_init ==
    [ ring_buffer |-> << >>,
      speech_frames |-> << >>,
      silence_frames |-> << >>,
      is_in_speech |-> FALSE,
      speech_start_time |-> FALSE,      \* None / set
      last_speech_time |-> FALSE,       \* None / set
      total_frames |-> 0 ]

RECURSIVE SumSeq(_)
SumSeq(s) == IF s = << >> THEN 0 ELSE Head(s) + SumSeq(Tail(s))

\* collections.deque(maxlen=50).append
RingAppend(ring, bit) ==
    IF Len(ring) >= ring_maxlen THEN Append(Tail(ring), bit) ELSE Append(ring, bit)

\* speech_ratio >= self.speech_threshold (0.6), speech_ratio = votes / len in
\* IEEE doubles: for len <= 50 the quotient compares with the literal 0.6
\* exactly as the fraction compares with 3/5.
AtLeastSpeechThreshold(votes, len) == 10 * votes >= 6 * len

\* speech_ratio <= (1 - self.silence_threshold): 1 - 0.8 evaluates to
\* 0.19999999999999996, below the double 10/50 = 0.2, so a ratio of exactly
\* one fifth does not pass; for len <= 50 the test is votes/len < 1/5.
AtMostSilenceLevel(votes, len) == 5 * votes < len

\* len(self.speech_frames) >= self.min_speech_frames
StartGate_NoMinFrames(v) == TRUE
StartGate(v) == Len(v.speech_frames) >= min_speech_frames

\* len(self.silence_frames) >= self.max_silence_frames
EndGate_Never(v) == FALSE
EndGate(v) == Len(v.silence_frames) >= max_silence_frames

VadResult(speaking, complete, audio) ==
    [is_speaking |-> speaking, speech_complete |-> complete, audio |-> audio,
     raised |-> FALSE]

\* self.vad.is_speech(audio_chunk, self.sample_rate): webrtcvad answers on
\* frames of 10, 20 or 30 ms only and raises on any other length.
is_speech(frame) ==
    IF frame.cls = "raise" \/ frame.len \notin {frame_bytes \div 3, 2 * (frame_bytes \div 3), frame_bytes}
    THEN "raise" ELSE frame.cls

\* the frame-size validation of process_audio_chunk
SizeCheck(frame) == frame.len = frame_bytes

\* what process_audio_chunk returns when the classifier raises
ClassifierError_Propagates(v) ==
    [vad |-> v, res |-> [is_speaking |-> FALSE, speech_complete |-> FALSE,
                         audio |-> None, raised |-> TRUE]]
ClassifierError(v) == [vad |-> v, res |-> VadResult(FALSE, FALSE, None)]

\* _has_sufficient_energy: every max(1, len // 5)-th frame is sampled and
\* the mean of the frames' RMS values must exceed min_energy_threshold
min_energy_threshold == 100

has_sufficient_energy(speech_frames) ==
    IF speech_frames = << >> THEN FALSE
    ELSE LET len == Len(speech_frames)
             step == IF len \div 5 > 1 THEN len \div 5 ELSE 1
             sample_frames == [i \in 1..((len - 1) \div step + 1) |->
                                 speech_frames[(i - 1) * step + 1].rms]
         IN SumSeq(sample_frames) > min_energy_threshold * Len(sample_frames)

(***************************************************************************)
(* EnhancedVoiceActivityDetector.process_audio_chunk.  durOK says whether  *)
(* time.time() - speech_start_time >= min_speech_duration at this call.    *)
(* The value is [vad |-> the detector afterwards, res |-> the result].     *)
(***************************************************************************)
EVAD_process_audio_chunk(v0, frame, durOK) ==
    LET v1 == [v0 EXCEPT !.total_frames = @ + 1] IN
    IF ~SizeCheck(frame) THEN [vad |-> v1, res |-> VadResult(FALSE, FALSE, None)]
    ELSE IF is_speech(frame) = "raise" THEN ClassifierError(v1)
    ELSE
    LET speech == is_speech(frame) = "speech"
        v2 == [v1 EXCEPT
                 !.ring_buffer = RingAppend(@, IF speech THEN 1 ELSE 0),
                 !.speech_frames = IF speech THEN Append(@, frame) ELSE @,
                 !.silence_frames = IF speech THEN << >> ELSE Append(@, frame)]
        votes == SumSeq(v2.ring_buffer)
        len == Len(v2.ring_buffer)
    IN
    IF ~v2.is_in_speech /\ AtLeastSpeechThreshold(votes, len) THEN
        IF StartGate(v2)
        THEN [vad |-> [v2 EXCEPT !.is_in_speech = TRUE, !.speech_start_time = TRUE],
              res |-> VadResult(TRUE, FALSE, None)]
        ELSE [vad |-> v2, res |-> VadResult(v2.is_in_speech, FALSE, None)]
    ELSE IF v2.is_in_speech /\ AtMostSilenceLevel(votes, len) THEN
        IF EndGate(v2) THEN
            IF v2.speech_start_time /\ durOK
            THEN [vad |-> [v2 EXCEPT !.is_in_speech = FALSE,
                                     !.last_speech_time = TRUE,
                                     !.speech_frames = << >>],
                  res |-> VadResult(FALSE, TRUE, Bytes(v2.speech_frames))]
            ELSE [vad |-> [v2 EXCEPT !.speech_frames = << >>, !.is_in_speech = FALSE],
                  res |-> VadResult(FALSE, FALSE, None)]
        ELSE [vad |-> v2, res |-> VadResult(v2.is_in_speech, FALSE, None)]
    ELSE [vad |-> v2, res |-> VadResult(v2.is_in_speech, FALSE, None)]


(***************************************************************************)
(* VoiceActivityDetector (voice_activity_detector.py), the detector that   *)
(* ContinuousConversationManager.__init__ creates once, as self.vad.       *)
(***************************************************************************)
vad_ring_maxlen == 10

VAD_init == [ ring_buffer |-> << >>, triggered |-> FALSE, voiced_frames |-> << >> ]

\* collections.deque(maxlen=10).append
VadRingAppend(ring, bit) ==
    IF Len(ring) >= vad_ring_maxlen THEN Append(Tail(ring), bit) ELSE Append(ring, bit)

\* percentage_voiced > self.speech_threshold (0.7)
AboveSpeechThreshold(votes, len) == 10 * votes > 7 * len

\* percentage_voiced < self.silence_threshold (0.8)
BelowSilenceThreshold(votes, len) == 10 * votes < 8 * len

\* VoiceActivityDetector.process_audio_chunk: no size validation and no
\* try/except, so an exception of the classifier leaves through the caller
\* (res.raised) with the detector untouched.
VAD_process_audio_chunk(v0, frame) ==
    IF is_speech(frame) = "raise"
    THEN [vad |-> v0, res |-> [is_speaking |-> FALSE, speech_complete |-> FALSE,
                               audio |-> None, raised |-> TRUE]]
    ELSE
    LET ring == VadRingAppend(v0.ring_buffer, IF is_speech(frame) = "speech" THEN 1 ELSE 0)
        votes == SumSeq(ring)
        v1 == [v0 EXCEPT !.ring_buffer = ring]
    IN
    IF ~v1.triggered THEN
        IF AboveSpeechThreshold(votes, Len(ring))
        THEN [vad |-> [v1 EXCEPT !.triggered = TRUE, !.voiced_frames = <<frame>>],
              res |-> VadResult(TRUE, FALSE, None)]
        ELSE [vad |-> v1, res |-> VadResult(FALSE, FALSE, None)]
    ELSE
        IF BelowSilenceThreshold(votes, Len(ring))
        THEN [vad |-> [v1 EXCEPT !.triggered = FALSE, !.voiced_frames = << >>],
              res |-> VadResult(FALSE, TRUE, Bytes(Append(v1.voiced_frames, frame)))]
        ELSE [vad |-> [v1 EXCEPT !.voiced_frames = Append(@, frame)],
              res |-> VadResult(TRUE, FALSE, None)]

(***************************************************************************)
(* ContinuousConversationManager: state                                    *)
(*                                                                         *)
(*   active_sessions  the manager's dict, as the set of its keys           *)
(*   vad              self.vad, one detector for the whole manager         *)
(*   session[s]       the session dict of call s                           *)
(*   task[s]          where the three coroutines of call s stand: main     *)
(*                    (start_continuous_session), recv                     *)
(*                    (_receive_audio_stream), proc (_process_audio_stream *)
(*                    and what it awaits), and why a loop was left         *)
(*   resp[s]          locals of _handle_user_speech and                    *)
(*                    _generate_and_speak_response                         *)
(*   ws[s]            the websocket: connected, and what was sent on it    *)
(*   intr[s]          _handle_interruption run on the session              *)
(*   env              what the environment may still do                    *)
(*   solo[s]          a detector fed the chunks of call s only, with the   *)
(*                    last results of self.vad and of this detector, and   *)
(*                    the chunks of call s by their tags: arrived, in the  *)
(*                    order they were appended to audio_buffer, and fed,   *)
(*                    in the order they were given to self.vad             *)
(***************************************************************************)
Sessions == 1..MaxSessions

Chars == {"a", ".", " "}
Punct == {".", "!", "?"}
Tokens == { <<"a">>, <<"a", ".">>, <<" ", "a">>, <<"a", ".", " ", "a", ".">> }

\* transcription.text: nothing, whitespace only, or words
Transcripts == { << >>, <<" ">>, <<"a">> }

\* any(punct in sentence_buffer for punct in ['.', '!', '?'])
HasPunct(text) == \E i \in 1..Len(text) : text[i] \in Punct

\* str.strip()
RECURSIVE LStrip(_)
LStrip(text) == IF text # << >> /\ Head(text) = " " THEN LStrip(Tail(text)) ELSE text
RECURSIVE RStrip(_)
RStrip(text) ==
    IF text # << >> /\ text[Len(text)] = " "
    THEN RStrip(SubSeq(text, 1, Len(text) - 1)) ELSE text
Strip(text) == RStrip(LStrip(text))

\* an inbound audio_chunk message's audio, tagged with the call it came on
SessFrame(s, len, cls, n) == [len |-> len, cls |-> cls, id |-> n, owner |-> s]

SessionDict ==
    [ is_ai_speaking |-> FALSE, audio_buffer |-> << >>,
      conversation_history |-> << >>, stale |-> FALSE ]

TaskInit == [ main |-> "new", recv |-> "new", proc |-> "new",
              recvExit |-> "none", procExit |-> "none", cancelled |-> FALSE,
              ended |-> 0, saveExit |-> "none" ]

RespInit == [ audio |-> None, transcript |-> << >>,
              response_text |-> << >>, sentence_buffer |-> << >>,
              fetched |-> 0, units |-> 0, broke |-> FALSE,
              turn |-> 0, utterances |-> 0, calls |-> 0 ]

IntrInit == [ pc |-> "none", turn |-> 0, k |-> 0, mark |-> 0, late |-> FALSE,
              fedmark |-> 0 ]

\* what the environment may still do: calls to place, inbound messages
\* to deliver, failures of external calls, transport drops, failures of
\* the persistence behind _save_conversation_summary; audio_only when the
\* caller sends well-formed audio chunks and nothing else
EnvBudget(calls) ==
    [calls |-> calls, inbound |-> MaxInbound, total |-> MaxInbound,
     faults |-> MaxFaults, drops |-> MaxDrops, save_faults |-> 0, audio_only |-> FALSE]

\* StreamingHandler.__init__ and the first lines of stream_llm_to_tts:
\* sentence_buffer = "", chunks_processed = 0; fed is the text of the
\* llm_stream so far, pending the sentences of the token being handled,
\* out what the generator has yielded
SH_init ==
    [ pc |-> "idle", sentence_buffer |-> << >>, pending |-> << >>,
      chunks_processed |-> 0, out |-> << >>, fed |-> << >>, tokens |-> 0,
      all_ok |-> TRUE, forced |-> FALSE ]

\* conversation_history as one session fills it over many turns, in the
\* code of src/backend or of src/backend-copy; all is every entry ever
\* appended, turns the number of turns taken
Hist_init(variant) ==
    [ variant |-> variant, pc |-> "new", history |-> << >>, all |-> << >>, turns |-> 0 ]

\* one StreamingHandler used by the calls of stream_llm_to_tts of two
\* clients at a time: sentence_buffer and chunks_processed are attributes
\* of the instance; pc, pending (the list sentences), out (what the
\* generator has yielded), toks (the chunks its llm_stream has given) and
\* all_ok belong to each call
Callers == 1..2

Duo_init ==
    [ sentence_buffer |-> << >>, chunks_processed |-> 0,
      call |-> [c \in Callers |->
                  [pc |-> "idle", pending |-> << >>, out |-> << >>, toks |-> << >>,
                   all_ok |-> TRUE]] ]

\* buffer_audio_stream: its locals buffer and buffer_duration, the chunks
\* audio_stream has given (fed) and the chunks yielded (out)
Bas_init ==
    [ pc |-> "idle", buffer |-> << >>, buffer_duration |-> 0, fed |-> << >>, out |-> << >> ]

CompInit ==
    /\ sh = SH_init /\ hist = Hist_init("backend")
    /\ duo = Duo_init /\ bas = Bas_init

ManagerInit ==
    /\ active_sessions = {}
    /\ vad = VAD_init
    /\ session = [s \in Sessions |-> SessionDict]
    /\ task = [s \in Sessions |-> TaskInit]
    /\ resp = [s \in Sessions |-> RespInit]
    /\ ws = [s \in Sessions |-> [connected |-> TRUE, sent |-> << >>, pings |-> 0]]
    /\ intr = [s \in Sessions |-> IntrInit]
    /\ solo = [s \in Sessions |-> [vad |-> VAD_init,
                                   shared |-> VadResult(FALSE, FALSE, None),
                                   alone |-> VadResult(FALSE, FALSE, None),
                                   arrived |-> << >>, fed |-> << >>]]

SessInit == CompInit /\ ManagerInit

\* websocket.send_json: raises once the transport is gone
CanSend(s) == ws[s].connected
Sent(s, msg) == [ws EXCEPT ![s].sent = Append(@, msg)]
\* _send_keepalive: pings are counted, and no further than MaxTicks
Pinged_Nothing(s) == ws
Pinged(s) == [ws EXCEPT ![s].pings = IF @ < MaxTicks THEN @ + 1 ELSE @]
Msg(type, text, unit) == [type |-> type, text |-> text, unit |-> unit]

\* an external call (speech-to-text, LLM stream, text-to-speech) may raise
MayFail == env.faults > 0
Fault == [env EXCEPT !.faults = @ - 1]

(***************************************************************************)
(* Frame driver: a stream of N silent frames, M speech frames and K silent *)
(* frames, played MaxReps times at most, into one detector.  K is fixed    *)
(* when the first pass ends, and is kmax at most.  gap silent frames come  *)
(* before the last speech frame.  All frames of a stream have              *)
(* the same RMS.  Off-size frames and frames on which the classifier       *)
(* raises may be fed in between.                                           *)
(***************************************************************************)
\* RMS of a frame's samples: near-silent input, and ordinary speech level
FrameRms == {50, 3000}
SpeechLevel == CHOOSE r \in FrameRms : \A q \in FrameRms : q <= r

Frame(cls, id, rms) == [len |-> frame_bytes, cls |-> cls, id |-> id, rms |-> rms]

BadFrames == { [len |-> 0, cls |-> "speech", id |-> 0, rms |-> 0],
               [len |-> frame_length, cls |-> "speech", id |-> 0, rms |-> 0],
               [len |-> frame_bytes, cls |-> "raise", id |-> 0, rms |-> 0] }

\* the driver before a stream is chosen
DrvIdle == [n |-> 0, m |-> 0, k |-> 0, rep |-> 1, pos |-> 0, durOK |-> TRUE, bad |-> 0,
            gap |-> 0, rms |-> 0, kmax |-> 0]

MaxK == max_silence_frames + ExtraK

\* vres before the first call of a pass
NoCall == [frame |-> [len |-> 0, cls |-> "none", id |-> 0, rms |-> 0],
           res |-> VadResult(FALSE, FALSE, None), before |-> EVAD_init]

\* the burst: M speech frames, the last of them after the gap
BurstLen(d) == d.m + d.gap

PlannedFrame(d) ==
    IF d.pos < d.n THEN Frame("silence", d.pos + 1, d.rms)
    ELSE IF d.pos < d.n + BurstLen(d)
         THEN IF d.pos \in (d.n + d.m - 1)..(d.n + d.m + d.gap - 2)
              THEN Frame("silence", d.pos + 1, d.rms)
              ELSE Frame("speech", d.pos + 1, d.rms)
    ELSE Frame("silence", d.pos + 1, d.rms)

SilenceFed(d) == IF d.pos > d.n + BurstLen(d) THEN d.pos - d.n - BurstLen(d) ELSE 0

PassOpen(d) ==
    IF d.rep = 1 THEN SilenceFed(d) < d.kmax ELSE d.pos < d.n + BurstLen(d) + d.k

PassComplete(d) ==
    IF d.rep = 1 THEN SilenceFed(d) >= max_silence_frames
    ELSE d.pos = d.n + BurstLen(d) + d.k

VadInit ==
    /\ evad = EVAD_init
    /\ drv \in { d \in [ n : 0..MaxN,
                        m : (min_speech_frames - SpanM)..(min_speech_frames + SpanM),
                        k : {0}, rep : {1}, pos : {0}, durOK : BOOLEAN, bad : {0},
                        gap : 0..MaxGap, rms : FrameRms, kmax : {MaxK} ] :
                   \* a gap, or near-silent input, in streams without leading silence
                   /\ d.gap = 0 \/ d.n = 0
                   /\ d.rms = SpeechLevel \/ (d.n = 0 /\ d.gap = 0 /\ d.durOK) }
    /\ vres = NoCall
    /\ vlog = << << >> >>
    /\ SessInit
    /\ env = EnvBudget(0)

FeedFrame ==
    /\ PassOpen(drv)
    /\ LET out == EVAD_process_audio_chunk(evad, PlannedFrame(drv), drv.durOK) IN
        /\ evad' = out.vad
        /\ vres' = [frame |-> PlannedFrame(drv), res |-> out.res, before |-> evad]
        /\ vlog' = [vlog EXCEPT ![drv.rep] = Append(@, out.res)]
    /\ drv' = [drv EXCEPT !.pos = @ + 1]
    /\ UNCHANGED <<sessVars, compVars>>

FeedBadFrame ==
    /\ drv.bad < MaxBad
    /\ \E f \in BadFrames :
        LET out == EVAD_process_audio_chunk(evad, f, drv.durOK) IN
        /\ evad' = out.vad
        /\ vres' = [frame |-> f, res |-> out.res, before |-> evad]
    /\ drv' = [drv EXCEPT !.bad = @ + 1]
    /\ UNCHANGED <<vlog, sessVars, compVars>>

NextPass ==
    /\ PassComplete(drv)
    /\ drv.rep < MaxReps
    /\ drv' = [drv EXCEPT !.k = SilenceFed(drv), !.rep = @ + 1, !.pos = 0]
    /\ vlog' = Append(vlog, << >>)
    /\ vres' = NoCall
    /\ UNCHANGED <<evad, sessVars, compVars>>

VadNext == FeedFrame \/ FeedBadFrame \/ NextPass

VadSpec == VadInit /\ [][VadNext]_vars

\* long bursts, up to a ring buffer full of speech votes, each followed by
\* silence for up to a whole ring buffer window
LongBursts == {min_speech_frames, ring_maxlen - max_silence_frames, ring_maxlen}

StuckInit ==
    /\ evad = EVAD_init
    /\ drv \in [ n : {0}, m : LongBursts,
                 k : {0}, rep : {1}, pos : {0}, durOK : BOOLEAN, bad : {0},
                 gap : {0}, rms : {SpeechLevel},
                 kmax : {ring_maxlen} ]
    /\ vres = NoCall
    /\ vlog = << << >> >>
    /\ SessInit
    /\ env = EnvBudget(0)

StuckSpec == StuckInit /\ [][VadNext]_vars

(***************************************************************************)
(* ContinuousConversationManager: start_continuous_session                 *)
(***************************************************************************)
Greeting == <<"h", "i", ".">>

Turn(role, content) == [role |-> role, content |-> content]

\* the except / finally of start_continuous_session: every way out of the
\* try block goes through _end_session
Finally_OnlyOnSuccess(outcome) == IF outcome = "returned" THEN "ending" ELSE "done"
Finally(outcome) == "ending"

\* session ids are fresh: the calls placed so far took 1, 2, ...
NextSessionId == 1 + Cardinality({t \in Sessions : task[t].main # "new"})

\* lines 47-70: build the session dict, register it, start the greeting
StartSession(s) ==
    /\ s = NextSessionId
    /\ task[s].main = "new"
    /\ env.calls > 0
    /\ env' = [env EXCEPT !.calls = @ - 1]
    /\ active_sessions' = active_sessions \cup {s}
    /\ task' = [task EXCEPT ![s].main = "greet_synth"]
    /\ UNCHANGED <<vadVars, compVars, vad, session, resp, ws, intr, solo>>

\* _send_greeting: await self.voice_pipeline.synthesize_speech(greeting)
GreetSynth(s) ==
    /\ task[s].main = "greet_synth"
    /\ \E ok \in BOOLEAN :
        /\ ok \/ MayFail
        /\ task' = [task EXCEPT ![s].main = IF ok THEN "greet_send" ELSE Finally("raised")]
        /\ env' = IF ok THEN env ELSE Fault
    /\ UNCHANGED <<vadVars, compVars, active_sessions, vad, session, resp, ws, intr, solo>>

\* _send_greeting: await websocket.send_json(greeting), append to the
\* history; then _conversation_loop creates the two tasks and awaits gather
GreetSend(s) ==
    /\ task[s].main = "greet_send"
    /\ IF CanSend(s)
       THEN /\ ws' = Sent(s, Msg("greeting", Greeting, 0))
            /\ session' = [session EXCEPT ![s].conversation_history =
                                Append(@, Turn("assistant", Greeting))]
            /\ task' = [task EXCEPT ![s].main = "loop", ![s].recv = "run",
                                    ![s].proc = "top"]
       ELSE /\ task' = [task EXCEPT ![s].main = Finally("raised")]
            /\ UNCHANGED <<ws, session>>
    /\ UNCHANGED <<vadVars, compVars, active_sessions, vad, resp, intr, env, solo>>

\* asyncio.gather(receive_task, process_task) returns when both loops ended
LoopReturn(s) ==
    /\ task[s].main = "loop"
    /\ task[s].recv = "done"
    /\ task[s].proc = "done"
    /\ task' = [task EXCEPT ![s].main = Finally("returned")]
    /\ UNCHANGED <<vadVars, compVars, active_sessions, vad, session, resp, ws, intr, env, solo>>

\* the task running start_continuous_session is cancelled at an await:
\* gather cancels both loop tasks, CancelledError passes `except Exception`
\* (or is caught by _conversation_loop), and the finally clause runs
Cancel(s) ==
    /\ task[s].main \in {"greet_synth", "greet_send", "loop"}
    /\ MayFail
    /\ env' = Fault
    /\ task' = [task EXCEPT
                 ![s].main = Finally("cancelled"),
                 ![s].cancelled = TRUE,
                 ![s].recv = IF @ = "run" THEN "done" ELSE @,
                 ![s].recvExit = IF task[s].recv = "run" THEN "cancelled" ELSE @,
                 ![s].proc = IF @ \notin {"new", "done"} THEN "done" ELSE @,
                 ![s].procExit = IF task[s].proc \notin {"new", "done"}
                                 THEN "cancelled" ELSE @]
    /\ UNCHANGED <<vadVars, compVars, active_sessions, vad, session, resp, ws, intr, solo>>

\* _end_session: summary, _save_conversation_summary, del active_sessions.
\* An exception of _save_conversation_summary leaves _end_session at line
\* 378, before the del, and start_continuous_session through its finally.
EndSession(s) ==
    /\ task[s].main = "ending"
    /\ IF s \in active_sessions
       THEN \E saved \in BOOLEAN :
            /\ saved \/ env.save_faults > 0
            /\ env' = IF saved THEN env ELSE [env EXCEPT !.save_faults = @ - 1]
            /\ active_sessions' = IF saved THEN active_sessions \ {s} ELSE active_sessions
            /\ task' = [task EXCEPT ![s].main = "done", ![s].ended = @ + 1,
                                    ![s].saveExit = IF saved THEN "saved" ELSE "raised"]
       ELSE /\ task' = [task EXCEPT ![s].main = "done"]
            /\ UNCHANGED <<active_sessions, env>>
    /\ UNCHANGED <<vadVars, compVars, vad, session, resp, ws, intr, solo>>

(***************************************************************************)
(* The environment of a call: inbound messages, the transport, the clock   *)
(***************************************************************************)
NextFrameId == env.total - env.inbound + 1

InboundMsgs(s) ==
    { [type |-> "audio_chunk", audio |-> SessFrame(s, frame_bytes, c, NextFrameId)]
        : c \in {"speech", "silence"} }
    \cup IF env.audio_only THEN {} ELSE
         { [type |-> "audio_chunk", audio |-> SessFrame(s, frame_length, "speech", NextFrameId)],
           [type |-> "audio_chunk"],        \* no "audio" key
           [type |-> "end_call"],
           [type |-> "ping"] }

\* one iteration of _receive_audio_stream
Receive(s) ==
    /\ task[s].recv = "run"
    /\ IF ~ws[s].connected
       THEN \* receive_json raises: except, break
            /\ task' = [task EXCEPT ![s].recv = "done", ![s].recvExit = "disconnect"]
            /\ UNCHANGED <<session, env, solo>>
       ELSE /\ env.inbound > 0
            /\ \E data \in InboundMsgs(s) :
                /\ env' = [env EXCEPT !.inbound = @ - 1]
                /\ IF data.type = "audio_chunk" THEN
                        IF "audio" \in DOMAIN data
                        THEN /\ session' = [session EXCEPT
                                    ![s].audio_buffer = Append(@, data.audio),
                                    ![s].stale = FALSE]
                             /\ solo' = [solo EXCEPT ![s].arrived = Append(@, data.audio.id)]
                             /\ UNCHANGED task
                        ELSE \* KeyError: except, break
                             /\ task' = [task EXCEPT ![s].recv = "done",
                                                     ![s].recvExit = "message_error"]
                             /\ UNCHANGED <<session, solo>>
                   ELSE IF data.type = "end_call"
                        THEN /\ task' = [task EXCEPT ![s].recv = "done",
                                                     ![s].recvExit = "end_call"]
                             /\ UNCHANGED <<session, solo>>
                        ELSE UNCHANGED <<task, session, solo>>
    /\ UNCHANGED <<vadVars, compVars, active_sessions, vad, resp, ws, intr>>

\* the peer closes the transport
Disconnect(s) ==
    /\ task[s].main \in {"greet_synth", "greet_send", "loop"}
    /\ ws[s].connected
    /\ env.drops > 0
    /\ env' = [env EXCEPT !.drops = @ - 1]
    /\ ws' = [ws EXCEPT ![s].connected = FALSE]
    /\ UNCHANGED <<vadVars, compVars, active_sessions, vad, session, task, resp, intr, solo>>

\* time.time() - session["last_activity"] grows beyond 30
TimePasses(s) ==
    /\ task[s].main = "loop"
    /\ ~session[s].stale
    /\ session' = [session EXCEPT ![s].stale = TRUE]
    /\ UNCHANGED <<vadVars, compVars, active_sessions, vad, task, resp, ws, intr, solo, env>>

(***************************************************************************)
(* _process_audio_stream and what it calls.  task[s].proc is the await the *)
(* coroutine stands at: "top" (start of an iteration), "transcribe",       *)
(* "send_transcript", "token", "synth", "send_audio", "synth_flush",       *)
(* "send_flush", "send_complete", "send_interrupted", "sleep",             *)
(* "keepalive", "done".                                                    *)
(***************************************************************************)
allow_interruptions == TRUE

\* session["is_ai_speaking"] = False: the first statement of
\* _handle_interruption, and the except branch of _generate_and_speak_response
StopSpeaking_Skipped(s) == session
StopSpeaking(s) == [session EXCEPT ![s].is_ai_speaking = FALSE]

\* what feeding chunk to the detector of a call on its own would give
SoloStep(s, chunk, shared) ==
    LET o == VAD_process_audio_chunk(solo[s].vad, chunk)
    IN [solo EXCEPT ![s].vad = o.vad, ![s].shared = shared, ![s].alone = o.res,
                    ![s].fed = Append(@, chunk.id)]

\* session["audio_buffer"].pop(0)
pop0_Newest(buffer) ==
    [chunk |-> buffer[Len(buffer)], rest |-> SubSeq(buffer, 1, Len(buffer) - 1)]
pop0(buffer) == [chunk |-> Head(buffer), rest |-> Tail(buffer)]

\* lines 128-154: one iteration up to its first await
ProcIter(s) ==
    /\ task[s].proc = "top"
    /\ IF session[s].audio_buffer # << >> /\ ~session[s].is_ai_speaking THEN
          LET audio_chunk == pop0(session[s].audio_buffer).chunk
              popped == [session EXCEPT ![s].audio_buffer = pop0(@).rest]
              out == VAD_process_audio_chunk(vad, audio_chunk)
          IN
          /\ vad' = out.vad
          /\ solo' = SoloStep(s, audio_chunk, out.res)
          /\ IF out.res.raised THEN
                \* except Exception: break
                /\ task' = [task EXCEPT ![s].proc = "done", ![s].procExit = "chunk_error"]
                /\ session' = popped
                /\ UNCHANGED resp
             ELSE IF out.res.speech_complete /\ out.res.audio.frames # << >> THEN
                /\ task' = [task EXCEPT ![s].proc = "transcribe"]
                /\ resp' = [resp EXCEPT ![s] = [RespInit EXCEPT
                                    !.audio = out.res.audio,
                                    !.turn = resp[s].turn,
                                    !.utterances = resp[s].utterances + 1,
                                    !.calls = resp[s].calls]]
                /\ session' = popped
             ELSE IF out.res.is_speaking /\ popped[s].is_ai_speaking /\ allow_interruptions THEN
                /\ session' = [popped EXCEPT ![s].is_ai_speaking = FALSE]
                /\ task' = [task EXCEPT ![s].proc = "send_interrupted"]
                /\ UNCHANGED resp
             ELSE
                /\ task' = [task EXCEPT ![s].proc = "sleep"]
                /\ session' = popped
                /\ UNCHANGED resp
       ELSE /\ task' = [task EXCEPT ![s].proc = "sleep"]
            /\ UNCHANGED <<vad, solo, session, resp>>
    /\ UNCHANGED <<vadVars, compVars, active_sessions, ws, intr, env>>

\* lines 186-191: the user's turn goes into the history
Heard_Twice(history, text) == Append(Append(history, Turn("user", text)), Turn("user", text))
Heard(history, text) == Append(history, Turn("user", text))

\* _handle_user_speech: await self.voice_pipeline.transcribe_audio(...),
\* `if not transcription.text: return`, the history entry
Transcribe(s) ==
    /\ task[s].proc = "transcribe"
    /\ \E raises \in BOOLEAN, text \in Transcripts :
        /\ raises => MayFail /\ text = << >>
        /\ env' = IF raises THEN Fault ELSE env
        /\ resp' = [resp EXCEPT ![s].transcript = text, ![s].calls = @ + 1]
        /\ IF ~raises /\ text # << >>
           THEN /\ session' = [session EXCEPT ![s].conversation_history = Heard(@, text)]
                /\ task' = [task EXCEPT ![s].proc = "send_transcript"]
           ELSE /\ task' = [task EXCEPT ![s].proc = "sleep"]
                /\ UNCHANGED session
    /\ UNCHANGED <<vadVars, compVars, active_sessions, vad, ws, intr, solo>>

\* a further unit is taken up while the ai_interrupted message of an
\* interruption of this response is not out yet
UnitBeforeNotice(s) == intr[s].pc = "send" /\ intr[s].turn = resp[s].turn

\* after the token loop of _generate_and_speak_response (lines 259-279):
\* flush the rest of sentence_buffer, or close the response
AfterTokenLoop(s, sess, r) ==
    IF Strip(r.sentence_buffer) # << >>
    THEN /\ resp' = [resp EXCEPT ![s] = [r EXCEPT !.units = @ + 1]]
         /\ task' = [task EXCEPT ![s].proc = "synth_flush"]
         /\ session' = sess
         /\ intr' = [intr EXCEPT ![s].late = @ \/ UnitBeforeNotice(s)]
    ELSE /\ resp' = [resp EXCEPT ![s] = r]
         /\ task' = [task EXCEPT ![s].proc = "send_complete"]
         /\ session' = [sess EXCEPT
                ![s].conversation_history = Append(@, Turn("assistant", r.response_text)),
                ![s].is_ai_speaking = FALSE]
         /\ UNCHANGED intr

\* async for chunk in self.smart_router.route_message_stream(full_prompt)
NextToken(s) ==
    /\ task[s].proc = "token"
    /\ \E ev \in {"chunk", "end", "raise"} :
        /\ ev = "raise" => MayFail
        /\ ev = "chunk" => resp[s].fetched < MaxTokens
        /\ env' = IF ev = "raise" THEN Fault ELSE env
        /\ IF ev = "raise" THEN
                /\ session' = StopSpeaking(s)
                /\ task' = [task EXCEPT ![s].proc = "sleep"]
                /\ UNCHANGED <<resp, intr>>
           ELSE IF ev = "end" THEN AfterTokenLoop(s, session, resp[s])
           ELSE \E chunk \in Tokens :
                LET r0 == [resp[s] EXCEPT !.fetched = @ + 1] IN
                IF ~session[s].is_ai_speaking
                THEN AfterTokenLoop(s, session, [r0 EXCEPT !.broke = TRUE])   \* break
                ELSE LET r1 == [r0 EXCEPT !.response_text = @ \o chunk,
                                          !.sentence_buffer = @ \o chunk]
                     IN IF HasPunct(r1.sentence_buffer)
                        THEN /\ resp' = [resp EXCEPT ![s] = [r1 EXCEPT !.units = @ + 1]]
                             /\ task' = [task EXCEPT ![s].proc = "synth"]
                             /\ intr' = [intr EXCEPT ![s].late = @ \/ UnitBeforeNotice(s)]
                             /\ UNCHANGED session
                        ELSE /\ resp' = [resp EXCEPT ![s] = r1]
                             /\ UNCHANGED <<task, session, intr>>
    /\ UNCHANGED <<vadVars, compVars, active_sessions, vad, ws, solo>>

\* await self.voice_pipeline.synthesize_speech(sentence_buffer.strip())
Synthesize(s) ==
    /\ task[s].proc \in {"synth", "synth_flush"}
    /\ \E ok \in BOOLEAN :
        /\ ok \/ MayFail
        /\ env' = IF ok THEN env ELSE Fault
        /\ IF ok
           THEN /\ task' = [task EXCEPT ![s].proc =
                              IF @ = "synth" THEN "send_audio" ELSE "send_flush"]
                /\ UNCHANGED session
           ELSE /\ session' = StopSpeaking(s)
                /\ task' = [task EXCEPT ![s].proc = "sleep"]
    /\ UNCHANGED <<vadVars, compVars, active_sessions, vad, resp, ws, intr, solo>>

\* _handle_interruption after its send_json: session["audio_buffer"].clear()
ClearPending(sess, s) == [sess EXCEPT ![s].audio_buffer = << >>]

\* every websocket.send_json the process task awaits
ProcSend(s) ==
    /\ task[s].proc \in {"send_transcript", "send_audio", "send_flush",
                         "send_complete", "send_interrupted", "keepalive"}
    /\ LET pc == task[s].proc
           r == resp[s]
           text == Strip(r.sentence_buffer)
       IN
       IF CanSend(s) THEN
          CASE pc = "send_transcript" ->
                \* then _generate_and_speak_response starts (line 218)
                /\ ws' = Sent(s, Msg("user_transcript", r.transcript, 0))
                /\ session' = [session EXCEPT ![s].is_ai_speaking = TRUE]
                /\ task' = [task EXCEPT ![s].proc = "token"]
                /\ resp' = [resp EXCEPT ![s].turn = @ + 1]
            [] pc = "send_audio" ->
                /\ ws' = Sent(s, Msg("ai_audio", text, r.units))
                /\ resp' = [resp EXCEPT ![s].sentence_buffer = << >>]
                /\ task' = [task EXCEPT ![s].proc = "token"]
                /\ UNCHANGED session
            [] pc = "send_flush" ->
                /\ ws' = Sent(s, Msg("ai_audio", text, r.units))
                /\ session' = [session EXCEPT
                        ![s].conversation_history =
                            Append(@, Turn("assistant", r.response_text)),
                        ![s].is_ai_speaking = FALSE]
                /\ task' = [task EXCEPT ![s].proc = "send_complete"]
                /\ UNCHANGED resp
            [] pc = "send_complete" ->
                /\ ws' = Sent(s, Msg("ai_complete", r.response_text, 0))
                /\ task' = [task EXCEPT ![s].proc = "sleep"]
                /\ UNCHANGED <<session, resp>>
            [] pc = "send_interrupted" ->
                /\ ws' = Sent(s, Msg("ai_interrupted", << >>, 0))
                /\ session' = ClearPending(session, s)
                /\ task' = [task EXCEPT ![s].proc = "sleep"]
                /\ UNCHANGED resp
            [] pc = "keepalive" ->
                /\ ws' = Pinged(s)
                /\ session' = [session EXCEPT ![s].stale = FALSE]
                /\ task' = [task EXCEPT ![s].proc = "top"]
                /\ UNCHANGED resp
       ELSE
          \* send_json raises
          /\ UNCHANGED <<ws, resp>>
          /\ IF pc \in {"keepalive", "send_interrupted"}
             THEN \* nothing below the loop catches it: except Exception, break
                  /\ task' = [task EXCEPT ![s].proc = "done", ![s].procExit = "send_error"]
                  /\ UNCHANGED session
             ELSE \* caught in _generate_and_speak_response / _handle_user_speech
                  /\ task' = [task EXCEPT ![s].proc = "sleep"]
                  /\ session' = IF pc = "send_transcript" THEN session ELSE StopSpeaking(s)
    /\ UNCHANGED <<vadVars, compVars, active_sessions, vad, intr, env, solo>>

\* await asyncio.sleep(0.01), then the inactivity test (lines 154-159)
Sleep(s) ==
    /\ task[s].proc = "sleep"
    /\ task' = [task EXCEPT ![s].proc = IF session[s].stale THEN "keepalive" ELSE "top"]
    /\ UNCHANGED <<vadVars, compVars, active_sessions, vad, session, resp, ws, intr, env, solo>>

(***************************************************************************)
(* _handle_interruption run on a session from outside its process loop,    *)
(* while a response is being spoken.  intr[s].k is the number of units     *)
(* whose synthesis had begun when the flag was cleared, intr[s].mark the   *)
(* number of messages sent by then, intr[s].late whether a further unit    *)
(* was taken up before the ai_interrupted message was out, intr[s].turn    *)
(* the response (resp[s].turn) that was interrupted, intr[s].fedmark the   *)
(* number of chunks of the call given to the detector by then.             *)
(***************************************************************************)
BargeIn(s) ==
    /\ task[s].proc \in {"token", "synth", "send_audio"}
    /\ session[s].is_ai_speaking
    /\ allow_interruptions
    /\ intr[s].pc \in {"none", "done"}
    /\ session' = StopSpeaking(s)
    /\ intr' = [intr EXCEPT ![s] = [pc |-> "send", turn |-> resp[s].turn,
                                    k |-> resp[s].units,
                                    mark |-> Len(ws[s].sent), late |-> FALSE,
                                    fedmark |-> Len(solo[s].fed)]]
    /\ UNCHANGED <<vadVars, compVars, active_sessions, vad, task, resp, ws, env, solo>>

BargeInSend(s) ==
    /\ intr[s].pc = "send"
    /\ intr' = [intr EXCEPT ![s].pc = "done"]
    /\ IF CanSend(s)
       THEN /\ ws' = Sent(s, Msg("ai_interrupted", << >>, 0))
            /\ session' = ClearPending(session, s)
       ELSE UNCHANGED <<ws, session>>
    /\ UNCHANGED <<vadVars, compVars, active_sessions, vad, task, resp, env, solo>>

(***************************************************************************)
(* Specifications                                                          *)
(***************************************************************************)
Init ==
    /\ evad = EVAD_init
    /\ drv = DrvIdle
    /\ vres = NoCall
    /\ vlog = << << >> >>
    /\ SessInit
    /\ env = EnvBudget(1)

Next ==
    \E s \in Sessions :
        \/ StartSession(s) \/ GreetSynth(s) \/ GreetSend(s)
        \/ LoopReturn(s) \/ Cancel(s) \/ EndSession(s)
        \/ Receive(s) \/ Disconnect(s) \/ TimePasses(s)
        \/ ProcIter(s) \/ Transcribe(s) \/ NextToken(s) \/ Synthesize(s)
        \/ ProcSend(s) \/ Sleep(s)

\* the manager as it is
Spec == Init /\ [][Next]_vars

\* the event loop runs every coroutine that can run, awaited calls return,
\* and time passes
Fairness ==
    \A s \in Sessions :
        /\ WF_vars(GreetSynth(s)) /\ WF_vars(GreetSend(s))
        /\ WF_vars(LoopReturn(s)) /\ WF_vars(EndSession(s))
        /\ WF_vars(ProcIter(s)) /\ WF_vars(Transcribe(s)) /\ WF_vars(NextToken(s))
        /\ WF_vars(Synthesize(s)) /\ WF_vars(ProcSend(s)) /\ WF_vars(Sleep(s))
        /\ WF_vars(TimePasses(s))

FairSpec == Init /\ [][Next]_vars /\ Fairness

\* the manager with _handle_interruption driven from outside the process loop
NextBargeIn == Next \/ \E s \in Sessions : BargeIn(s) \/ BargeInSend(s)

SpecBargeIn == Init /\ [][NextBargeIn]_vars

\* several calls on one manager at the same time, nothing failing
TwoCallsInit ==
    /\ evad = EVAD_init
    /\ drv = DrvIdle
    /\ vres = NoCall
    /\ vlog = << << >> >>
    /\ SessInit
    /\ env = [EnvBudget(MaxSessions) EXCEPT !.faults = 0, !.drops = 0]

TwoCallsNext ==
    \E s \in Sessions :
        \/ StartSession(s) \/ GreetSynth(s) \/ GreetSend(s)
        \/ Receive(s) \/ LoopReturn(s) \/ EndSession(s)
        \/ ProcIter(s) \/ Transcribe(s) \/ NextToken(s) \/ Synthesize(s)
        \/ ProcSend(s) \/ Sleep(s)

TwoCallsSpec == TwoCallsInit /\ [][TwoCallsNext]_vars

\* one call that stays up: the caller sends MaxUtterance well-formed audio
\* chunks, nothing fails
OneCallInit ==
    /\ evad = EVAD_init
    /\ drv = DrvIdle
    /\ vres = NoCall
    /\ vlog = << << >> >>
    /\ SessInit
    /\ env = [EnvBudget(1) EXCEPT !.faults = 0, !.drops = 0, !.audio_only = TRUE,
                                  !.inbound = MaxUtterance, !.total = MaxUtterance]

OneCallNext ==
    \E s \in Sessions :
        \/ StartSession(s) \/ GreetSynth(s) \/ GreetSend(s) \/ Receive(s)
        \/ ProcIter(s) \/ Transcribe(s) \/ NextToken(s) \/ Synthesize(s)
        \/ ProcSend(s) \/ Sleep(s)

OneCallSpec == OneCallInit /\ [][OneCallNext]_vars

\* as Spec, with a persistence behind _save_conversation_summary that may
\* raise
PersistFailInit ==
    /\ evad = EVAD_init
    /\ drv = DrvIdle
    /\ vres = NoCall
    /\ vlog = << << >> >>
    /\ SessInit
    /\ env = [EnvBudget(1) EXCEPT !.save_faults = MaxSaveFaults]

PersistFailSpec == PersistFailInit /\ [][Next]_vars

(***************************************************************************)
(* StreamingHandler (streaming_handler.py).  Text is a sequence of         *)
(* characters.                                                             *)
(***************************************************************************)
min_chunk_size == 50
max_chunk_size == 200

Whitespace == {" "}
\* self.sentence_endings = re.compile(r'[.!?]\s+')
SentenceEnd == {".", "!", "?"}
\* self.partial_sentence_endings = re.compile(r'[,;:]\s+')
PartialEnd == {",", ";", ":"}

\* the greedy \s+ of a match whose first whitespace is text[j]: the last
\* position of the run of whitespace from j on
WsRunEnd(text, j) ==
    CHOOSE e \in j..Len(text) :
        /\ \A k \in j..e : text[k] \in Whitespace
        /\ e = Len(text) \/ text[e + 1] \notin Whitespace

RECURSIVE Ascending(_)
Ascending(S) ==
    IF S = {} THEN << >>
    ELSE LET lo == CHOOSE x \in S : \A y \in S : x <= y IN <<lo>> \o Ascending(S \ {lo})

\* [m.end() for m in pattern.finditer(text)]: a match is one character of
\* cls and the whitespace after it, so no two matches can overlap
MatchEnds(text, cls) ==
    Ascending({ WsRunEnd(text, i + 1) :
                  i \in { j \in 1..(Len(text) - 1) :
                            text[j] \in cls /\ text[j + 1] \in Whitespace } })

\* StreamingHandler.detect_sentence_boundary
detect_sentence_boundary(text) ==
    LET ends == MatchEnds(text, SentenceEnd)
        piece(k) == Strip(SubSeq(text, IF k = 1 THEN 1 ELSE ends[k - 1] + 1, ends[k]))
        all == [k \in 1..Len(ends) |-> piece(k)]
    IN IF ends = << >>
       THEN [sentences |-> << >>, remaining |-> text]
       ELSE [sentences |-> SelectSeq(all, LAMBDA x : x # << >>),
             remaining |-> Strip(SubSeq(text, ends[Len(ends)] + 1, Len(text)))]

\* the chunks of the llm_stream
RunOn == [i \in 1..RunOnLen |-> "a"]
SegTokens ==
    { <<"H", "e", "l", "l", "o", " ", "w", "o", "r", "l", "d", ".", " ", "H", "o", "w", " ", "a", "r", "e">>,
      <<" ", "y", "o", "u", "?">>,
      <<"a", ".", " ", "b", " ">>,
      <<"c", ".">>,
      <<"a", ",", " ">>,
      RunOn }

\* a dict yielded by stream_llm_to_tts
AudioUnit(id, text, kind) == [type |-> "audio", chunk_id |-> id, text |-> text, kind |-> kind]
Yield_Prepend(out, d) == <<d>> \o out
Yield(out, d) == Append(out, d)

\* lines 120-124: the buffer is over the cap and has a soft break point
BreakPoints(h) == MatchEnds(h.sentence_buffer, PartialEnd)
OverCap(h) == Len(h.sentence_buffer) > max_chunk_size
CutsAtSoftBreak(h) ==
    OverCap(h) /\ BreakPoints(h) # << >> /\ Len(h.sentence_buffer) > min_chunk_size

\* after the for loop over the sentences: the test of lines 120-124, then
\* either the await of the partial chunk or the next token
AfterSentences(h) ==
    IF h.pending # << >> THEN h
    ELSE [h EXCEPT !.pc = IF CutsAtSoftBreak(h) THEN "partial" ELSE "next"]

\* _generate_audio_chunk returns a dict, or None when synthesis fails, and
\* the unit is yielded in the first case only
Emit(h, text, kind, ok) ==
    IF ok
    THEN [h EXCEPT !.chunks_processed = @ + 1,
                   !.out = Yield(@, AudioUnit(h.chunks_processed + 1, text, kind))]
    ELSE [h EXCEPT !.all_ok = FALSE]

\* stream_llm_to_tts is called: lines 83-86
SH_Start ==
    /\ sh.pc = "idle"
    /\ sh' = [sh EXCEPT !.pc = "next"]
    /\ UNCHANGED <<vadVars, sessVars, hist, duo, bas>>

\* the llm_stream gives a chunk (lines 89-98, 120-124)
SH_Token ==
    /\ sh.pc = "next"
    /\ sh.tokens < MaxSegTokens
    /\ \E t \in SegTokens :
        LET d == detect_sentence_boundary(sh.sentence_buffer \o t) IN
        sh' = AfterSentences([sh EXCEPT !.pc = "sentences",
                                        !.fed = @ \o t, !.tokens = @ + 1,
                                        !.sentence_buffer = d.remaining,
                                        !.pending = d.sentences])
    /\ UNCHANGED <<vadVars, sessVars, hist, duo, bas>>

\* one round of the for loop (lines 98-117, then 120-124 after the last)
SH_Sentence ==
    /\ sh.pc = "sentences"
    /\ sh.pending # << >>
    /\ \E ok \in BOOLEAN :
        sh' = AfterSentences(
                Emit([sh EXCEPT !.pending = Tail(@)], Head(sh.pending), "sentence",
                     ok \/ Len(Strip(Head(sh.pending))) = 0))
    /\ UNCHANGED <<vadVars, sessVars, hist, duo, bas>>

\* forced cut at the last soft break point (lines 126-145)
SH_Partial ==
    /\ sh.pc = "partial"
    /\ LET bp == BreakPoints(sh)
           break_point == bp[Len(bp)]
           chunk_to_process == Strip(SubSeq(sh.sentence_buffer, 1, break_point))
           rest == Strip(SubSeq(sh.sentence_buffer, break_point + 1,
                                Len(sh.sentence_buffer)))
       IN \E ok \in BOOLEAN :
            sh' = Emit([sh EXCEPT !.pc = "next", !.sentence_buffer = rest,
                                  !.forced = TRUE],
                       chunk_to_process, "partial", ok)
    /\ UNCHANGED <<vadVars, sessVars, hist, duo, bas>>

\* the llm_stream ends: flush of the remainder and the completion signal
\* (lines 148-170)
SH_Flush ==
    /\ sh.pc = "next"
    /\ \E ok \in BOOLEAN :
        LET rem == Strip(sh.sentence_buffer)
            h1 == IF rem # << >> THEN Emit(sh, rem, "final", ok) ELSE sh
        IN /\ rem = << >> => ok
           /\ sh' = [h1 EXCEPT !.pc = "done",
                       !.out = Yield(@, [type |-> "complete", chunk_id |-> h1.chunks_processed,
                                         text |-> << >>, kind |-> "complete"])]
    /\ UNCHANGED <<vadVars, sessVars, hist, duo, bas>>

\* the llm_stream raises: except branch (lines 172-178)
SH_StreamError ==
    /\ sh.pc = "next"
    /\ sh.tokens > 0
    /\ sh' = [sh EXCEPT !.pc = "failed",
                !.out = Yield(@, [type |-> "error", chunk_id |-> 0,
                                  text |-> << >>, kind |-> "error"])]
    /\ UNCHANGED <<vadVars, sessVars, hist, duo, bas>>

SegNext == SH_Start \/ SH_Token \/ SH_Sentence \/ SH_Partial \/ SH_Flush \/ SH_StreamError

SegInit ==
    /\ evad = EVAD_init
    /\ drv = DrvIdle
    /\ vres = NoCall
    /\ vlog = << << >> >>
    /\ SessInit
    /\ env = EnvBudget(0)

SegSpec == SegInit /\ [][SegNext]_vars

\* either component on its own: the conversation manager with one call, or
\* the streaming handler with one stream
NoCallPlaced == \A s \in Sessions : task[s].main = "new"

OrderNext ==
    \/ sh.pc = "idle" /\ Next
    \/ NoCallPlaced /\ SegNext

OrderSpec == Init /\ [][OrderNext]_vars

(***************************************************************************)
(* Two calls of stream_llm_to_tts on one StreamingHandler, as the          *)
(* websocket endpoint of routers/streaming.py makes them for two clients:  *)
(* streaming_handler is one module-level instance.  The calls interleave   *)
(* at their awaits.  A call is seen as the record h of the attributes of   *)
(* the instance and its own locals; a step maps h to h.                    *)
(***************************************************************************)
\* the chunks of the two llm_streams: the text of the first call is made
\* of "a", that of the second of "b"
SoftRun == RunOn \o <<",", " ">>
DuoTokens(c) ==
    IF c = 1 THEN { <<"a", ".", " ">>, <<"a">>, SoftRun }
    ELSE { <<"b", ".", " ">>, <<"b">> }

View(d, c) ==
    [ pc |-> d.call[c].pc, pending |-> d.call[c].pending, out |-> d.call[c].out,
      toks |-> d.call[c].toks, all_ok |-> d.call[c].all_ok,
      sentence_buffer |-> d.sentence_buffer, chunks_processed |-> d.chunks_processed ]

Store(d, c, h) ==
    [ sentence_buffer |-> h.sentence_buffer, chunks_processed |-> h.chunks_processed,
      call |-> [d.call EXCEPT ![c] = [pc |-> h.pc, pending |-> h.pending, out |-> h.out,
                                      toks |-> h.toks, all_ok |-> h.all_ok]] ]

\* lines 83-86: self.chunks_processed = 0, self.sentence_buffer = ""
StartStep(h) ==
    [h EXCEPT !.pc = "next", !.chunks_processed = 0, !.sentence_buffer = << >>]

\* lines 126-128, which follow the test of lines 120-124 with no await in
\* between: the buffer is cut at once and chunk_to_process, a local, waits
\* for its synthesis
CutStep(h) ==
    IF h.pc # "partial" THEN h
    ELSE LET bp == BreakPoints(h)
             break_point == bp[Len(bp)]
             chunk_to_process == Strip(SubSeq(h.sentence_buffer, 1, break_point))
             rest == Strip(SubSeq(h.sentence_buffer, break_point + 1,
                                  Len(h.sentence_buffer)))
         IN [h EXCEPT !.sentence_buffer = rest, !.pending = <<chunk_to_process>>]

\* lines 89-98 and, when there is no sentence, lines 120-128
TokenStep(h, t) ==
    LET d == detect_sentence_boundary(h.sentence_buffer \o t) IN
    CutStep(AfterSentences([h EXCEPT !.pc = "sentences", !.toks = Append(@, t),
                                     !.sentence_buffer = d.remaining,
                                     !.pending = d.sentences]))

\* one round of the for loop (lines 98-117, then 120-128 after the last)
SentenceStep(h, ok) ==
    CutStep(AfterSentences(Emit([h EXCEPT !.pending = Tail(@)], Head(h.pending),
                                "sentence", ok \/ Len(Strip(Head(h.pending))) = 0)))

\* the partial chunk is synthesised and yielded (lines 130-145)
PartialStep(h, ok) ==
    Emit([h EXCEPT !.pc = "next", !.pending = << >>], Head(h.pending), "partial", ok)

\* the llm_stream ends: lines 148-170
FlushStep(h, ok) ==
    LET rem == Strip(h.sentence_buffer)
        h1 == IF rem # << >> THEN Emit(h, rem, "final", ok) ELSE h
    IN [h1 EXCEPT !.pc = "done",
            !.out = Yield(@, [type |-> "complete", chunk_id |-> h1.chunks_processed,
                              text |-> << >>, kind |-> "complete"])]

Duo_Start(c) ==
    /\ duo.call[c].pc = "idle"
    /\ duo' = Store(duo, c, StartStep(View(duo, c)))
    /\ UNCHANGED <<vadVars, sessVars, sh, hist, bas>>

Duo_Token(c) ==
    /\ duo.call[c].pc = "next"
    /\ Len(duo.call[c].toks) < MaxDuoTokens
    /\ \E t \in DuoTokens(c) : duo' = Store(duo, c, TokenStep(View(duo, c), t))
    /\ UNCHANGED <<vadVars, sessVars, sh, hist, bas>>

Duo_Sentence(c) ==
    /\ duo.call[c].pc = "sentences"
    /\ \E ok \in BOOLEAN : duo' = Store(duo, c, SentenceStep(View(duo, c), ok))
    /\ UNCHANGED <<vadVars, sessVars, sh, hist, bas>>

Duo_Partial(c) ==
    /\ duo.call[c].pc = "partial"
    /\ \E ok \in BOOLEAN : duo' = Store(duo, c, PartialStep(View(duo, c), ok))
    /\ UNCHANGED <<vadVars, sessVars, sh, hist, bas>>

Duo_Flush(c) ==
    /\ duo.call[c].pc = "next"
    /\ \E ok \in BOOLEAN :
        /\ Strip(duo.sentence_buffer) = << >> => ok
        /\ duo' = Store(duo, c, FlushStep(View(duo, c), ok))
    /\ UNCHANGED <<vadVars, sessVars, sh, hist, bas>>

DuoNext ==
    \E c \in Callers :
        \/ Duo_Start(c) \/ Duo_Token(c) \/ Duo_Sentence(c)
        \/ Duo_Partial(c) \/ Duo_Flush(c)

DuoInit ==
    /\ evad = EVAD_init
    /\ drv = DrvIdle
    /\ vres = NoCall
    /\ vlog = << << >> >>
    /\ SessInit
    /\ env = EnvBudget(0)

DuoSpec == DuoInit /\ [][DuoNext]_vars

\* a call running alone on a handler of its own, every synthesis
\* succeeding: what it yields for the chunks toks of its llm_stream
RECURSIVE Drain(_)
Drain(h) ==
    IF h.pc = "sentences" THEN Drain(SentenceStep(h, TRUE))
    ELSE IF h.pc = "partial" THEN PartialStep(h, TRUE)
    ELSE h

RECURSIVE AloneRun(_, _)
AloneRun(h, toks) ==
    IF toks = << >> THEN FlushStep(h, TRUE)
    ELSE AloneRun(Drain(TokenStep(h, Head(toks))), Tail(toks))

AloneOut(toks) == AloneRun(StartStep(View(Duo_init, 1)), toks).out

(***************************************************************************)
(* StreamingHandler.buffer_audio_stream.  A chunk of audio_stream is a     *)
(* dict as stream_llm_to_tts yields them: an audio unit with its duration  *)
(* in seconds and its "final" mark, or the complete or error event; id     *)
(* tells the chunks of a stream apart.                                     *)
(***************************************************************************)
buffer_size == 2

BasChunks(id) ==
    { [type |-> "audio", id |-> id, duration |-> d, final |-> f] :
        d \in {1, buffer_size}, f \in BOOLEAN }
    \cup { [type |-> t, id |-> id, duration |-> 0, final |-> FALSE] :
             t \in {"complete", "error"} }

\* buffer = [], buffer_duration = 0.0
Bas_Start ==
    /\ bas.pc = "idle"
    /\ bas' = [bas EXCEPT !.pc = "run"]
    /\ UNCHANGED <<vadVars, sessVars, sh, hist, duo>>

\* one round of `async for chunk in audio_stream` (lines 235-248), the
\* yields of its while loop included
Bas_Chunk ==
    /\ bas.pc = "run"
    /\ Len(bas.fed) < MaxChunks
    /\ \E chunk \in BasChunks(Len(bas.fed) + 1) :
        LET b0 == [bas EXCEPT !.fed = Append(@, chunk)] IN
        IF chunk.type = "audio"
        THEN LET b1 == [b0 EXCEPT !.buffer = Append(@, chunk),
                                  !.buffer_duration = @ + chunk.duration]
             IN IF b1.buffer_duration >= buffer_size \/ chunk.final
                THEN bas' = [b1 EXCEPT !.out = @ \o b1.buffer, !.buffer = << >>]
                ELSE bas' = b1
        ELSE bas' = [b0 EXCEPT !.out = Append(@, chunk)]
    /\ UNCHANGED <<vadVars, sessVars, sh, hist, duo>>

\* audio_stream ends: the remaining buffered chunks are yielded (250-252)
Bas_End ==
    /\ bas.pc = "run"
    /\ bas' = [bas EXCEPT !.pc = "done", !.out = @ \o bas.buffer, !.buffer = << >>]
    /\ UNCHANGED <<vadVars, sessVars, sh, hist, duo>>

BasNext == Bas_Start \/ Bas_Chunk \/ Bas_End

BasInit ==
    /\ evad = EVAD_init
    /\ drv = DrvIdle
    /\ vres = NoCall
    /\ vlog = << << >> >>
    /\ SessInit
    /\ env = EnvBudget(0)

BasSpec == BasInit /\ [][BasNext]_vars

(***************************************************************************)
(* conversation_history over many turns.  src/backend appends one entry    *)
(* per role (_send_greeting, _handle_user_speech,                          *)
(* _generate_and_speak_response); src/backend-copy appends one entry per   *)
(* exchange in _process_audio_stream and keeps the last history_cap.       *)
(***************************************************************************)
history_cap == 10

\* session["conversation_history"].append(entry)
HistAppend(h, entry) ==
    [h EXCEPT !.history = Append(@, entry), !.all = Append(@, entry)]

\* session["conversation_history"][-10:]
LastN(seq, n) == IF Len(seq) > n THEN SubSeq(seq, Len(seq) - n + 1, Len(seq)) ELSE seq

\* src/backend-copy lines 224-225
KeepRecent(h) ==
    IF Len(h.history) > history_cap
    THEN [h EXCEPT !.history = LastN(@, history_cap)] ELSE h

\* _send_greeting appends the greeting
H_Greeting ==
    /\ hist.pc = "new"
    /\ hist' = [HistAppend(hist, Turn("assistant", 0)) EXCEPT !.pc = "listening"]
    /\ UNCHANGED <<vadVars, sessVars, sh, duo, bas>>

\* src/backend _handle_user_speech, lines 186-191
H_UserTurn ==
    /\ hist.variant = "backend"
    /\ hist.pc = "listening"
    /\ hist.turns < MaxTurns
    /\ hist' = [HistAppend(hist, Turn("user", hist.turns + 1))
                    EXCEPT !.pc = "responding", !.turns = @ + 1]
    /\ UNCHANGED <<vadVars, sessVars, sh, duo, bas>>

\* src/backend _generate_and_speak_response, lines 271-276, or its except
\* branch when the response fails before
H_AssistantTurn ==
    /\ hist.variant = "backend"
    /\ hist.pc = "responding"
    /\ \E ok \in BOOLEAN :
        hist' = [(IF ok THEN HistAppend(hist, Turn("assistant", hist.turns)) ELSE hist)
                    EXCEPT !.pc = "listening"]
    /\ UNCHANGED <<vadVars, sessVars, sh, duo, bas>>

\* src/backend-copy _process_audio_stream, lines 216-225, or one of its
\* branches that append nothing
H_Exchange ==
    /\ hist.variant = "backend-copy"
    /\ hist.pc = "listening"
    /\ hist.turns < MaxTurns
    /\ \E ok \in BOOLEAN :
        hist' = [(IF ok THEN KeepRecent(HistAppend(hist, Turn("exchange", hist.turns + 1)))
                        ELSE hist)
                    EXCEPT !.turns = @ + 1]
    /\ UNCHANGED <<vadVars, sessVars, sh, duo, bas>>

HistNext == H_Greeting \/ H_UserTurn \/ H_AssistantTurn \/ H_Exchange

HistInit ==
    /\ evad = EVAD_init
    /\ drv = DrvIdle
    /\ vres = NoCall
    /\ vlog = << << >> >>
    /\ ManagerInit
    /\ env = EnvBudget(0)
    /\ sh = SH_init
    /\ duo = Duo_init /\ bas = Bas_init
    /\ hist \in { Hist_init(v) : v \in {"backend", "backend-copy"} }

HistSpec == HistInit /\ [][HistNext]_vars

(***************************************************************************)
(* Properties of the conversation manager                                  *)
(***************************************************************************)
SpeechPending(s) ==
    \E i \in 1..Len(session[s].audio_buffer) : session[s].audio_buffer[i].cls = "speech"

\* the call has ended, lost its transport or lost its process loop
CallOver(s) ==
    ~ws[s].connected \/ task[s].main \in {"ending", "done"} \/ task[s].proc = "done"

Notified(s) == \E i \in 1..Len(ws[s].sent) : ws[s].sent[i].type = "ai_interrupted"

\* C1: whenever user speech arrives on the inbound audio while a response is
\* being spoken (is_ai_speaking, allow_interruptions), _handle_interruption
\* eventually runs, the flag is cleared by it and ai_interrupted is sent,
\* unless the call is over first.
C1_BargeInReachable ==
    \A s \in Sessions :
        (session[s].is_ai_speaking /\ allow_interruptions /\ SpeechPending(s))
        ~> (Notified(s) \/ CallOver(s))

\* C2: once is_ai_speaking has been forced to False during a response of
\* which k units had been taken up, no ai_audio of a later unit is sent, from
\* the token loop or from the flush, and no later unit is taken up before
\* the ai_interrupted message is out.
C2_InterruptionPrompt ==
    \A s \in Sessions :
        (intr[s].pc # "none" /\ intr[s].turn = resp[s].turn /\ intr[s].k >= 1)
        => /\ ~intr[s].late
           /\ \A i \in (intr[s].mark + 1)..Len(ws[s].sent) :
                ws[s].sent[i].type = "ai_audio" => ws[s].sent[i].unit <= intr[s].k

\* C3: _end_session runs exactly once for every registered session, on every
\* way out of start_continuous_session, and the session is then no longer
\* in active_sessions.
C3_CleanupOnce ==
    \A s \in Sessions :
        /\ task[s].ended <= 1
        /\ task[s].main = "done" => (task[s].ended = 1 /\ s \notin active_sessions)

C3_Witness ==
    \E s \in Sessions :
        /\ task[s].main = "done"
        /\ task[s].cancelled
        /\ task[s].procExit = "cancelled"
        /\ task[s].ended = 1

\* C4: once end_call has been received, or the transport has gone, the
\* session reaches Closed: both loops stopped, _end_session run, the session
\* out of active_sessions.
C4_EndOfCallCloses ==
    \A s \in Sessions :
        (task[s].recvExit \in {"end_call", "disconnect"})
        ~> (task[s].main = "done" /\ s \notin active_sessions)

\* C5: the results the detector gives for the chunks of a call are those a
\* detector fed this call's chunks alone would give.
C5_Isolation ==
    \A s \in Sessions : solo[s].shared = solo[s].alone

\* C6: an exception while handling one inbound message or one buffered
\* chunk does not end the receive loop or the process loop.
C6_LoopsSurviveErrors ==
    \A s \in Sessions :
        /\ task[s].recvExit # "message_error"
        /\ task[s].procExit # "chunk_error"

\* C15: the retained conversation_history never holds more than
\* history_cap entries, and it holds the most recent entries in their
\* original order.
C15_HistoryCap ==
    /\ Len(hist.history) <= history_cap
    /\ hist.history = LastN(hist.all, Len(hist.history))

\* the ai_complete messages sent on a call: the responses that ran to their end
Completed(s) == SelectSeq(ws[s].sent, LAMBDA d : d.type = "ai_complete")

\* C16: when the token loop has stopped because is_ai_speaking became
\* False, the history gains no assistant turn for that response: its last
\* entry stays the user's turn.
C16_InterruptedAbandoned ==
    \A s \in Sessions :
        resp[s].broke =>
            session[s].conversation_history[Len(session[s].conversation_history)].role
                # "assistant"

\* the history is the greeting followed by n exchanges, user turn first
IsExchanges(history, n) ==
    /\ Len(history) = 1 + 2 * n
    /\ \A i \in 1..n : history[2 * i].role = "user" /\ history[2 * i + 1].role = "assistant"

\* C17: when every utterance the detector has completed so far was answered
\* by a response that ran to its end, the session has made one
\* transcription call per utterance and the history holds, after the
\* greeting, one user turn followed by one assistant turn per utterance.
C17_OneExchange ==
    \A s \in Sessions :
        (session[s].conversation_history # << >>
            /\ resp[s].utterances = Len(Completed(s)))
        => /\ resp[s].calls = resp[s].utterances
           /\ IsExchanges(session[s].conversation_history, resp[s].utterances)

\* silence, speech, silence: the detector saw a silent chunk first, and the
\* one utterance was answered to the end
C17_Witness ==
    \E s \in Sessions :
        /\ resp[s].utterances = 1 /\ Len(Completed(s)) = 1
        /\ vad.ring_buffer # << >> /\ vad.ring_buffer[1] = 0
        /\ resp[s].calls = 1

\* sentence terminators in a text
Terminators(text) == Cardinality({ i \in 1..Len(text) : text[i] \in Punct })

\* C18: when a response has run to its end, the synthesis calls it made,
\* less the one of a flushed remainder, are as many as the sentence
\* terminators in the full response text.
C18_OneSynthesisPerSentence ==
    \A s \in Sessions :
        task[s].proc = "send_complete"
        => resp[s].units - (IF Strip(resp[s].sentence_buffer) # << >> THEN 1 ELSE 0)
             = Terminators(resp[s].response_text)

\* C19: a transcription that comes back empty or whitespace-only changes
\* nothing: no history entry, no message, is_ai_speaking stays False and
\* the process loop goes on listening.
C19_EmptyTranscriptIgnored ==
    [][ \A s \in Sessions :
          ( /\ task[s].proc = "transcribe"
            /\ task'[s].proc \in {"sleep", "send_transcript"}
            /\ Strip(resp'[s].transcript) = << >> )
          => /\ task'[s].proc = "sleep"
             /\ session'[s] = session[s]
             /\ ws'[s] = ws[s]
      ]_vars

\* C20: when _save_conversation_summary raises, _end_session still
\* returns normally and the session is out of active_sessions.
C20_TeardownSurvivesSaveFailure ==
    \A s \in Sessions :
        task[s].main = "done"
        => (task[s].saveExit # "raised" /\ s \notin active_sessions)

\* a step in which an external call awaited by the process task of s raises
DownstreamFailure(s) ==
    /\ task[s].proc \in {"transcribe", "token", "synth", "synth_flush"}
    /\ env'.faults < env.faults
    /\ ~task'[s].cancelled

\* C21: when the transcription, generation or synthesis call raises, the
\* exception stays below the process loop: the loop is at its sleep and has
\* not been left, is_ai_speaking is False, the session is still registered
\* and start_continuous_session is where it was.
C21_TurnAbandoned ==
    [][ \A s \in Sessions :
          DownstreamFailure(s)
          => /\ task'[s].proc = "sleep"
             /\ task'[s].procExit = "none"
             /\ ~session'[s].is_ai_speaking
             /\ s \in active_sessions'
             /\ task'[s].main = "loop"
      ]_vars

\* a two-chunk utterance failed downstream and the third chunk went through
\* the detector afterwards
C21_Witness ==
    \E s \in Sessions :
        /\ task[s].main = "loop" /\ ~task[s].cancelled /\ task[s].proc # "done"
        /\ env.faults = 0
        /\ resp[s].utterances = 1 /\ Len(resp[s].audio.frames) = 2
        /\ Len(vad.ring_buffer) = 3

\* C23: inactivity closes nothing.  When the inactivity window runs out,
\* nothing but the session's clock changes; the process loop, at its check
\* after the sleep, goes to send a keepalive; and with the transport up the
\* keepalive puts a ping on the wire, resets last_activity and takes the
\* loop to its next iteration, with the receive loop, the session's
\* registration and start_continuous_session as they were.
C23_InactivityKeepsSession ==
    [][ \A s \in Sessions :
          /\ (~session[s].stale /\ session'[s].stale)
             => (task' = task /\ active_sessions' = active_sessions /\ ws' = ws)
          /\ (task[s].proc = "sleep" /\ session[s].stale
                /\ task'[s].proc # "sleep" /\ ~task'[s].cancelled)
             => task'[s].proc = "keepalive"
          /\ (task[s].proc = "keepalive" /\ ws[s].connected
                /\ task'[s].proc # "keepalive" /\ ~task'[s].cancelled)
             => /\ task'[s].proc = "top"
                /\ ws'[s].pings > ws[s].pings \/ ws'[s].pings = MaxTicks
                /\ ~session'[s].stale
                /\ task'[s].recv = task[s].recv
                /\ task'[s].main = "loop"
                /\ active_sessions' = active_sessions
      ]_vars

\* a ping went out, the caller stayed silent for another window, and the
\* call is up with both loops running
C23_Witness ==
    \E s \in Sessions :
        /\ ws[s].pings >= 1 /\ session[s].stale
        /\ task[s].main = "loop" /\ task[s].recv = "run" /\ task[s].proc = "top"
        /\ s \in active_sessions

\* C26: when _handle_interruption has run on a session and no chunk has
\* been given to the detector since it began, the detector is in its reset
\* state: ring buffer empty, not triggered, no voiced frames.
C26_VadResetOnInterruption ==
    \A s \in Sessions :
        (intr[s].pc = "done" /\ Len(solo[s].fed) = intr[s].fedmark)
        => vad = VAD_init

\* the tags of the chunks in an audio buffer
ChunkIds(buffer) == [i \in 1..Len(buffer) |-> buffer[i].id]

\* C27: the chunks given to the detector so far, followed by those still in
\* audio_buffer, are the chunks that arrived, each once and in the order
\* of arrival.
C27_FifoHandOff ==
    \A s \in Sessions :
        solo[s].fed \o ChunkIds(session[s].audio_buffer) = solo[s].arrived

\* two chunks went through the detector while a third, arrived meanwhile,
\* waits in the buffer
C27_Witness ==
    \E s \in Sessions :
        /\ Len(solo[s].fed) = 2
        /\ Len(session[s].audio_buffer) = 1
        /\ task[s].proc = "top"

(***************************************************************************)
(* Properties of the streaming handler                                     *)
(***************************************************************************)
\* the audio units yielded so far, and their texts
AudioUnits == SelectSeq(sh.out, LAMBDA d : d.type = "audio")
UnitTexts == [i \in 1..Len(AudioUnits) |-> AudioUnits[i].text]

RECURSIVE Concat(_)
Concat(texts) == IF texts = << >> THEN << >> ELSE Head(texts) \o Concat(Tail(texts))

\* the stream was consumed to its end and every synthesis call succeeded
StreamDone == sh.pc = "done" /\ sh.all_ok

\* C11: the texts of the emitted audio units, concatenated in emission
\* order, are the fed tokens concatenated, character for character.
C11_RoundTrip == StreamDone => Concat(UnitTexts) = sh.fed

\* the units the text of a whole stream falls into: one per terminator that
\* is followed by whitespace or ends the text, holding the text since the
\* previous one, and the non-empty rest; each without the whitespace around
SentencesOf(text) ==
    LET ends == Ascending({ i \in 1..Len(text) :
                    /\ text[i] \in SentenceEnd
                    /\ i = Len(text) \/ text[i + 1] \in Whitespace })
        from(k) == IF k = 1 THEN 1 ELSE ends[k - 1] + 1
        last == IF ends = << >> THEN 0 ELSE ends[Len(ends)]
        rest == Strip(SubSeq(text, last + 1, Len(text)))
    IN [k \in 1..Len(ends) |-> Strip(SubSeq(text, from(k), ends[k]))]
       \o (IF rest = << >> THEN << >> ELSE <<rest>>)

\* C12: without a forced cut, the emitted units are the sentences of the
\* fed text, one unit per terminator, however the text is split into tokens.
C12_Boundary == (StreamDone /\ ~sh.forced) => UnitTexts = SentencesOf(sh.fed)

\* C13: whenever the handler waits for the next token, the buffered text is
\* within max_chunk_size: text over the cap has been force-emitted.
C13_ForcedCutoff == sh.pc = "next" => Len(sh.sentence_buffer) <= max_chunk_size

\* C28: a call of stream_llm_to_tts that shares the handler with another
\* call yields what it would yield alone: the same units, with the same
\* texts and the chunk_id sequence 1, 2, 3, ...
C28_FreshBufferPerResponse ==
    \A c \in Callers :
        (duo.call[c].pc = "done" /\ duo.call[c].all_ok)
        => duo.call[c].out = AloneOut(duo.call[c].toks)

\* the same, for a call that has the handler to itself from start to end
C28_AloneAsComputed ==
    \A c \in Callers :
        (duo.call[c].pc = "done" /\ duo.call[c].all_ok
            /\ \A o \in Callers \ {c} : duo.call[o].pc = "idle")
        => duo.call[c].out = AloneOut(duo.call[c].toks)

\* C29: what buffer_audio_stream has yielded when its input has ended is
\* its input: every chunk once, in the order of the input, so no complete
\* or error event ahead of an audio chunk that came before it.
C29_BufferKeepsOrder == bas.pc = "done" => bas.out = bas.fed

\* the ai_audio messages i < j of one response: no user_transcript between
SameResponse(sent, i, j) ==
    /\ sent[i].type = "ai_audio" /\ sent[j].type = "ai_audio"
    /\ \A k \in i..j : sent[k].type # "user_transcript"

Completions(log) == { i \in 1..Len(log) : log[i].speech_complete }

\* the frames of the burst of a pass, and the speech frames among them
BurstOfPass(d) == [ i \in 1..BurstLen(d) |-> PlannedFrame([d EXCEPT !.pos = d.n + i - 1]) ]
SpeechFramesOfPass(d) == SelectSeq(BurstOfPass(d), LAMBDA f : f.cls = "speech")

\* C7: from a fresh detector, N silent frames, M >= min_speech_frames speech
\* frames and K >= max_silence_frames silent frames, with the duration gate
\* met, give speech_complete = True exactly once, with all M speech frames
\* as the payload.
C7_StartEndSymmetry ==
    (drv.rep = 1 /\ drv.gap = 0 /\ drv.m >= min_speech_frames /\ drv.durOK
        /\ SilenceFed(drv) >= max_silence_frames)
    => /\ Cardinality(Completions(vlog[1])) = 1
       /\ \A i \in Completions(vlog[1]) : vlog[1][i].audio = Bytes(SpeechFramesOfPass(drv))

\* C8: a burst of M < min_speech_frames speech frames between silence of at
\* least max_silence_frames frames never gives speech_complete = True,
\* however often the burst is repeated.
C8_Rejection ==
    drv.m < min_speech_frames
    => \A r \in 1..Len(vlog) : Completions(vlog[r]) = {}

C8_Witness ==
    /\ drv.m < min_speech_frames
    /\ drv.rep = 2
    /\ PassComplete(drv)
    /\ Len(evad.speech_frames) >= min_speech_frames

\* C9: on a frame of the wrong byte length, and on a frame on which the
\* classifier raises, process_audio_chunk returns (False, False, None) and
\* raises nothing, whatever state the detector is in.
C9_NeverRaises ==
    vres.frame \in BadFrames
    => vres.res = [is_speaking |-> FALSE, speech_complete |-> FALSE,
                   audio |-> None, raised |-> FALSE]

C9_Witness ==
    /\ vres.frame.cls = "raise"
    /\ vres.before.is_in_speech
    /\ evad.is_in_speech

\* C22: malformed input changes nothing: after a frame of the wrong size the
\* detector (ring buffer, in-speech flag, speech and silence buffers,
\* counters) is as it was before the call, and after a control message that
\* cannot be parsed the receive loop is still running.
C22_MalformedDropped ==
    /\ (vres.frame \in BadFrames /\ ~SizeCheck(vres.frame)) => evad = vres.before
    /\ \A s \in Sessions : task[s].recvExit = "message_error" => task[s].recv = "run"

\* C24: no utterance whose sampled frames have a mean RMS at or below
\* min_energy_threshold is returned with speech_complete = True.
C24_EnergyGate ==
    vres.res.speech_complete => has_sufficient_energy(vres.res.audio.frames)

\* the call (1-based, bad frames not counted) at which the pass went into speech
SpeechStart(log) == CHOOSE i \in 1..Len(log) :
                        log[i].is_speaking /\ \A j \in 1..(i - 1) : ~log[j].is_speaking

\* C25: the payload of a completed utterance holds every frame received
\* from the call that detected the speech start to the last speech frame
\* (the silence after that may be trimmed), in arrival order.
C25_ContiguousPayload ==
    (vres.res.speech_complete /\ drv.rep = 1)
    => LET start == SpeechStart(vlog[1])
           last == drv.n + BurstLen(drv)
           heard == [i \in 1..(last - start + 1) |->
                        PlannedFrame([drv EXCEPT !.pos = start + i - 2])]
           payload == vres.res.audio.frames
       IN /\ Len(payload) >= Len(heard)
          /\ SubSeq(payload, Len(payload) - Len(heard) + 1, Len(payload)) = heard

\* C30: once a whole window of ring_maxlen silent frames has followed the
\* burst, the detector is out of speech, and the pass gave speech_complete
\* = True once at most.
C30_NotStuckInSpeech ==
    SilenceFed(drv) >= ring_maxlen
    => /\ ~evad.is_in_speech
       /\ Cardinality(Completions(vlog[drv.rep])) <= 1

\* a ring buffer full of speech votes, in speech, then a window of silence:
\* the utterance was completed on the way
C30_Witness ==
    /\ drv.m >= ring_maxlen /\ drv.rep = 1
    /\ SilenceFed(drv) >= ring_maxlen
    /\ Completions(vlog[1]) # {}
    /\ vlog[1][drv.m].is_speaking

\* C10: when speech_complete = True is returned the detector is back in its
\* initial detection state, and the same stream played a second time gives
\* the same results and payload as the first time.
C10_ClearedAtBoundary ==
    /\ vres.res.speech_complete
        => /\ ~evad.is_in_speech
           /\ evad.speech_frames = << >>
           /\ evad.silence_frames = << >>
           /\ evad.ring_buffer = << >>
    /\ (drv.rep = 2 /\ PassComplete(drv) /\ Completions(vlog[1]) # {})
        => vlog[2] = vlog[1]

\* the second half of C10 alone: a stream that gave one utterance gives the
\* same results when played again
C10_SamePassTwice ==
    (drv.rep = 2 /\ PassComplete(drv) /\ Completions(vlog[1]) # {})
        => vlog[2] = vlog[1]

====
